---- MODULE Spec2Model ----
(***************************************************************************)
(* Model of app.py, the "Deluxe" multiplication table script.  The script  *)
(* is executed top to bottom on every interaction; each section of the     *)
(* script is one action, the program counter pc names the next section.    *)
(*                                                                         *)
(* A data frame is a record [index, columns, values]: index and columns    *)
(* are sequences of labels, values is a row-major sequence of rows.  Text  *)
(* (labels, formatted numbers, widget options) is a sequence of one        *)
(* character strings, so that formatting and parsing are computed.         *)
(***************************************************************************)
EXTENDS Integers, Sequences, FiniteSets, TLC

VARIABLES
    n,                   \* slider "Table size"
    cmap,                \* selectbox "Color palette (table)"
    show_heatmap,        \* checkbox "Show heatmap"
    show_rowcol_sums,    \* checkbox "Show row/column totals"
    highlight_multiples, \* selectbox "Highlight multiples of..."
    precision,           \* slider "Number format (decimal places)"
    pc,                  \* next section of the script
    data,                \* np.outer(rows, cols)
    df,                  \* the data frame named df
    df_display,          \* the data frame handed to the styler
    operands,            \* per cell of df_display: the cells a sum read
    metrics,             \* the four st.metric texts
    styler,              \* cell texts, gradient range and highlight mask
    shown,               \* what st.dataframe / st.altair_chart put on the page
    df_heat,             \* long form records for the chart
    csv,                 \* the text handed to st.download_button
    error                \* the uncaught exception that ended the run

vars == <<n, cmap, show_heatmap, show_rowcol_sums, highlight_multiples,
          precision, pc, data, df, df_display, operands, metrics, styler,
          shown, df_heat, csv, error>>

controls == <<n, cmap, show_heatmap, show_rowcol_sums, highlight_multiples,
              precision>>

-----------------------------------------------------------------------------
(* Bounds and widget ranges *)

\* st.slider("Table size (n x n)", 5, 50, 12): lower end of the slider
MinN == 5

\* upper end of the table sizes explored (the slider goes up to 50)
MaxN == 7

\* st.slider("Number format (decimal places)", 0, 3, 0): upper end
MaxPrecision == 3

Sizes == MinN..MaxN

Palettes == {"viridis", "plasma", "magma", "cividis", "coolwarm", "rainbow"}

NoneOption == <<"N", "o", "n", "e">>

HighlightOptions ==
    {NoneOption, <<"2">>, <<"3">>, <<"5">>, <<"7">>, <<"1", "0">>}

Precisions == 0..MaxPrecision

-----------------------------------------------------------------------------
(* Text: formatting and parsing *)

DigitChars == <<"0", "1", "2", "3", "4", "5", "6", "7", "8", "9">>

DigitValue(c) == CHOOSE d \in 0..9 : DigitChars[d + 1] = c

IsDigit(c) == \E d \in 0..9 : DigitChars[d + 1] = c

\* f"{i}" of a non-negative integer
RECURSIVE Str(_)
Str(i) ==
    IF i < 10 THEN <<DigitChars[i + 1]>>
    ELSE Str(i \div 10) \o <<DigitChars[(i % 10) + 1]>>

\* int(s) of a string of decimal digits
RECURSIVE Int_(_)
Int_(s) ==
    IF Len(s) = 0 THEN 0
    ELSE 10 * Int_(SubSeq(s, 1, Len(s) - 1)) + DigitValue(s[Len(s)])

Zeros(p) == [k \in 1..p |-> "0"]

\* f"{v:.{p}f}" of a non-negative integer v
FormatFixed(v, p) ==
    IF p = 0 THEN Str(v) ELSE Str(v) \o <<".">> \o Zeros(p)

\* three digits, zero padded: the groups after the first in f"{v:,}"
Group3(v) ==
    <<DigitChars[(v \div 100) + 1], DigitChars[((v \div 10) % 10) + 1],
      DigitChars[(v % 10) + 1]>>

\* f"{v:,}" of a non-negative integer
RECURSIVE FormatThousands(_)
FormatThousands(v) ==
    IF v < 1000 THEN Str(v)
    ELSE FormatThousands(v \div 1000) \o <<",">> \o Group3(v % 1000)

\* the number a displayed text stands for: its digits up to the decimal
\* point, thousands separators skipped
RECURSIVE ReadNumber(_, _)
ReadNumber(s, acc) ==
    IF Len(s) = 0 \/ s[1] = "." THEN acc
    ELSE IF IsDigit(s[1]) THEN ReadNumber(Tail(s), 10 * acc + DigitValue(s[1]))
    ELSE ReadNumber(Tail(s), acc)

-----------------------------------------------------------------------------
(* numpy / pandas helpers *)

RECURSIVE SumSeq(_)
SumSeq(s) == IF Len(s) = 0 THEN 0 ELSE s[1] + SumSeq(Tail(s))

RECURSIVE MinSeq(_)
MinSeq(s) ==
    IF Len(s) = 1 THEN s[1]
    ELSE LET m == MinSeq(Tail(s)) IN IF s[1] < m THEN s[1] ELSE m

RECURSIVE MaxSeq(_)
MaxSeq(s) ==
    IF Len(s) = 1 THEN s[1]
    ELSE LET m == MaxSeq(Tail(s)) IN IF s[1] > m THEN s[1] ELSE m

\* np.arange(b - a): the start left out, the range begins at 0
Arange_FromZero(a, b) == [k \in 1..(b - a) |-> k - 1]

\* np.arange(a, b)
Arange(a, b) == [k \in 1..(b - a) |-> a + k - 1]

\* np.outer(r, c[::-1]): the second vector taken backwards
Outer_Reversed(r, c) ==
    [i \in 1..Len(r) |-> [j \in 1..Len(c) |-> r[i] * c[Len(c) + 1 - j]]]

\* np.add.outer(r, c): sums where products are meant
Outer_Add(r, c) == [i \in 1..Len(r) |-> [j \in 1..Len(c) |-> r[i] + c[j]]]

\* np.outer(r, c)
Outer(r, c) == [i \in 1..Len(r) |-> [j \in 1..Len(c) |-> r[i] * c[j]]]

EmptyFrame == [index |-> <<>>, columns |-> <<>>, values |-> <<>>]

NRows(f) == Len(f.index)

NCols(f) == Len(f.columns)

Column(f, j) == [i \in 1..NRows(f) |-> f.values[i][j]]

\* f.sum(axis=1): one sum per row, over all columns of f
SumAxis1(f) == [i \in 1..NRows(f) |-> SumSeq(f.values[i])]

\* f.iloc[1:].sum(axis=0): the first row taken for a header and left out
SumAxis0_SkipFirst(f) ==
    [j \in 1..NCols(f) |-> SumSeq(Tail(Column(f, j)))]

\* f.sum(axis=0): one sum per column, over all rows of f
SumAxis0(f) == [j \in 1..NCols(f) |-> SumSeq(Column(f, j))]

\* f.min().min()
FrameMin(f) == MinSeq([j \in 1..NCols(f) |-> MinSeq(Column(f, j))])

\* f.max().max()
FrameMax(f) == MaxSeq([j \in 1..NCols(f) |-> MaxSeq(Column(f, j))])

\* f.values.sum()
ValuesSum(f) == SumSeq([i \in 1..NRows(f) |-> SumSeq(f.values[i])])

SigmaRow == <<"S", "i", "g", "m", "a", " ", "r", "o", "w">>

SigmaCol == <<"S", "i", "g", "m", "a", " ", "c", "o", "l">>

-----------------------------------------------------------------------------
(* The script *)

Init ==
    /\ n \in Sizes
    /\ cmap \in Palettes
    /\ show_heatmap \in BOOLEAN
    /\ show_rowcol_sums \in BOOLEAN
    /\ highlight_multiples \in HighlightOptions
    /\ precision \in Precisions
    /\ pc = "data"
    /\ data = <<>>
    /\ df = EmptyFrame
    /\ df_display = EmptyFrame
    /\ operands = <<>>
    /\ metrics = <<>>
    /\ styler = <<>>
    /\ shown = {}
    /\ df_heat = <<>>
    /\ csv = <<>>
    /\ error = "none"

\* rows, cols, data, df
Data ==
    /\ pc = "data"
    /\ LET rows == Arange(1, n + 1)
           cols == Arange(1, n + 1)
       IN /\ data' = Outer(rows, cols)
          /\ df' = [index |-> [i \in 1..Len(rows) |-> Str(rows[i])],
                    columns |-> [j \in 1..Len(cols) |-> Str(cols[j])],
                    values |-> Outer(rows, cols)]
    /\ pc' = "sums"
    /\ UNCHANGED <<controls, df_display, operands, metrics, styler, shown,
                   df_heat, csv, error>>

\* df["Sigma row"] = df.sum(axis=1): df itself gains the column
WithRowTotals(f) ==
    [index |-> f.index,
     columns |-> Append(f.columns, SigmaRow),
     values |-> [i \in 1..NRows(f) |-> Append(f.values[i], SumAxis1(f)[i])]]

\* list(df.sum(axis=0)): one total per column of f as it is by now
TotalRow(f) == SumAxis0(f)

\* pd.concat([f, one row labelled label], axis=0)
Concat(f, row, label) ==
    [index |-> Append(f.index, label),
     columns |-> f.columns,
     values |-> Append(f.values, row)]

\* the cells of the displayed frame that each displayed cell was summed from:
\* none for a cell of the matrix, the row's cells for df.sum(axis=1) taken
\* over the nc columns df had then, the column's cells for df.sum(axis=0)
\* taken over the nr rows of df
SumOperands(nr, nc, withTotals) ==
    [i \in 1..(IF withTotals THEN nr + 1 ELSE nr) |->
        [j \in 1..(IF withTotals THEN nc + 1 ELSE nc) |->
            IF i = nr + 1 THEN {<<r, j>> : r \in 1..nr}
            ELSE IF j = nc + 1 THEN {<<i, c>> : c \in 1..nc}
            ELSE {}]]

\* Optional row/column sums
Sums ==
    /\ pc = "sums"
    /\ IF show_rowcol_sums
       THEN /\ df' = WithRowTotals(df)
            /\ df_display' = Concat(df', TotalRow(df'), SigmaCol)
            /\ operands' = SumOperands(NRows(df), NCols(df), TRUE)
       ELSE /\ df' = df
            /\ df_display' = df
            /\ operands' = SumOperands(NRows(df), NCols(df), FALSE)
    /\ pc' = "stats"
    /\ UNCHANGED <<controls, data, metrics, styler, shown, df_heat, csv, error>>

\* Quick stats
QuickStats ==
    /\ pc = "stats"
    /\ metrics' = [Size |-> Str(n) \o <<" ", "x", " ">> \o Str(n),
                   Min |-> FormatFixed(FrameMin(df), precision),
                   Max |-> FormatFixed(FrameMax(df), precision),
                   Sum |-> FormatThousands(ValuesSum(df))]
    /\ pc' = "styling"
    /\ UNCHANGED <<controls, data, df, df_display, operands, styler, shown,
                   df_heat, csv, error>>

\* _highlight(v) for one row v of the styled frame, k = int(highlight_multiples).
\* Every cell of the frame is an integer, so isinstance(x, (int, float)) holds
\* for each of them and x % k never raises: the except branch is not taken.
Highlight(v, k) == [j \in 1..Len(v) |-> v[j] % k = 0]

\* styler.apply(_highlight, axis=1): every row of the styled frame
HighlightMask(f, choice) ==
    IF choice # NoneOption
    THEN [i \in 1..NRows(f) |-> Highlight(f.values[i], Int_(choice))]
    ELSE [i \in 1..NRows(f) |-> [j \in 1..NCols(f) |-> FALSE]]

\* Styling
Styling ==
    /\ pc = "styling"
    /\ styler' =
         [text |-> [i \in 1..NRows(df_display) |->
                      [j \in 1..NCols(df_display) |->
                          FormatFixed(df_display.values[i][j], precision)]],
          gradient |-> [cmap |-> cmap,
                        vmin |-> FrameMin(df_display),
                        vmax |-> FrameMax(df_display)],
          highlight |-> HighlightMask(df_display, highlight_multiples)]
    /\ pc' = "display"
    /\ UNCHANGED <<controls, data, df, df_display, operands, metrics, shown,
                   df_heat, csv, error>>

\* Display Table
DisplayTable ==
    /\ pc = "display"
    /\ shown' = shown \cup {"table"}
    /\ pc' = "heatmap"
    /\ UNCHANGED <<controls, data, df, df_display, operands, metrics, styler,
                   df_heat, csv, error>>

\* pd.DataFrame(values, index=index, columns=columns) accepts a 2-D array
\* only when its shape is (len(index), len(columns))
ShapeMatches(values, index, columns) ==
    /\ Len(values) = Len(index)
    /\ \A i \in 1..Len(values) : Len(values[i]) = Len(columns)

\* .reset_index().melt(id_vars="index", ...).rename(...): column by column,
\* one record per row
Melt(values, index, columns) ==
    [k \in 1..(Len(index) * Len(columns)) |->
        LET c == ((k - 1) \div Len(index)) + 1
            r == ((k - 1) % Len(index)) + 1
        IN [Row |-> index[r], Column |-> columns[c], Value |-> values[r][c]]]

\* Heatmap (Altair)
Heatmap ==
    /\ pc = "heatmap"
    /\ LET rows == Arange(1, n + 1)
           cols == Arange(1, n + 1)
       IN IF ~show_heatmap
          THEN /\ pc' = "csv"
               /\ UNCHANGED <<df_heat, shown, error>>
          ELSE IF ShapeMatches(df.values, rows, cols)
          THEN /\ df_heat' = Melt(df.values, rows, cols)
               /\ shown' = shown \cup {"heatmap"}
               /\ pc' = "csv"
               /\ UNCHANGED error
          ELSE /\ error' = "ValueError"
               /\ pc' = "aborted"
               /\ UNCHANGED <<df_heat, shown>>
    /\ UNCHANGED <<controls, data, df, df_display, operands, metrics, styler,
                   csv>>

RECURSIVE Join(_, _)
Join(fields, sep) ==
    IF Len(fields) = 0 THEN <<>>
    ELSE IF Len(fields) = 1 THEN fields[1]
    ELSE fields[1] \o <<sep>> \o Join(Tail(fields), sep)

\* f.to_csv(index=True): a header line with an empty first field, then one
\* line per row, the row's label first
ToCsv(f) ==
    <<Join(<<<<>>>> \o f.columns, ",")>> \o
    [i \in 1..NRows(f) |->
        Join(<<f.index[i]>> \o [j \in 1..NCols(f) |-> Str(f.values[i][j])],
             ",")]

\* CSV Download, and the static text after it
CsvDownload ==
    /\ pc = "csv"
    /\ csv' = ToCsv(df)
    /\ shown' = shown \cup {"download"}
    /\ pc' = "done"
    /\ UNCHANGED <<controls, data, df, df_display, operands, metrics, styler,
                   df_heat, error>>

\* Sidebar Controls: an interaction changes the widgets and the script is
\* executed again from the top, with nothing kept from the last run
Sidebar ==
    /\ pc \in {"done", "aborted"}
    /\ n' \in Sizes
    /\ cmap' \in Palettes
    /\ show_heatmap' \in BOOLEAN
    /\ show_rowcol_sums' \in BOOLEAN
    /\ highlight_multiples' \in HighlightOptions
    /\ precision' \in Precisions
    /\ pc' = "data"
    /\ data' = <<>>
    /\ df' = EmptyFrame
    /\ df_display' = EmptyFrame
    /\ operands' = <<>>
    /\ metrics' = <<>>
    /\ styler' = <<>>
    /\ shown' = {}
    /\ df_heat' = <<>>
    /\ csv' = <<>>
    /\ error' = "none"

Next ==
    \/ Data
    \/ Sums
    \/ QuickStats
    \/ Styling
    \/ DisplayTable
    \/ Heatmap
    \/ CsvDownload
    \/ Sidebar

Spec == Init /\ [][Next]_vars

-----------------------------------------------------------------------------
(* Reading the outputs back *)

\* the fields of one CSV line
RECURSIVE Split(_, _, _)
Split(line, sep, cur) ==
    IF Len(line) = 0 THEN <<cur>>
    ELSE IF line[1] = sep THEN <<cur>> \o Split(Tail(line), sep, <<>>)
    ELSE Split(Tail(line), sep, Append(cur, line[1]))

Fields(line) == Split(line, ",", <<>>)

TypeOK ==
    /\ n \in Sizes
    /\ pc \in {"data", "sums", "stats", "styling", "display", "heatmap",
               "csv", "done", "aborted"}
    /\ error \in {"none", "ValueError"}
    /\ shown \subseteq {"table", "heatmap", "download"}

AfterData == pc # "data"

AfterSums == pc \notin {"data", "sums"}

AfterStats == pc \notin {"data", "sums", "stats"}

AfterStyling == pc \notin {"data", "sums", "stats", "styling"}

AfterHeatmap == pc \in {"csv", "done", "aborted"}

RunEnded == pc \in {"done", "aborted"}

\* i*1 + i*2 + ... + i*m
RECURSIVE SigmaProducts(_, _)
SigmaProducts(i, m) == IF m = 0 THEN 0 ELSE i * m + SigmaProducts(i, m - 1)

\* the sum of the values of a set of cells of the displayed frame
RECURSIVE SumCells(_)
SumCells(cells) ==
    IF cells = {} THEN 0
    ELSE LET q == CHOOSE x \in cells : TRUE
         IN df_display.values[q[1]][q[2]] + SumCells(cells \ {q})

BaseCells == (1..n) \X (1..n)

-----------------------------------------------------------------------------
(* Claims *)

\* C1: once the run has reached the end, the CSV offered for download holds
\* exactly the n x n base matrix: n+1 lines of n+1 fields, a header with an
\* empty first field and the column labels 1..n, and for each row i the label
\* i followed by i*1 .. i*n; no totals column and no totals row.
C1_CsvIsBaseMatrix ==
    pc = "done" =>
        /\ Len(csv) = n + 1
        /\ \A l \in 1..(n + 1) : Len(Fields(csv[l])) = n + 1
        /\ Fields(csv[1])[1] = <<>>
        /\ \A j \in 1..n : Fields(csv[1])[j + 1] = Str(j)
        /\ \A i \in 1..n :
              /\ Fields(csv[i + 1])[1] = Str(i)
              /\ \A j \in 1..n : ReadNumber(Fields(csv[i + 1])[j + 1], 0) = i * j

\* C2: with totals enabled, the displayed frame has a totals column holding
\* for each row i in 1..n the sum of i*j over j in 1..n, and a totals row
\* holding for each column j in 1..n the sum of i*j over i in 1..n; each of
\* these totals is the sum of the cells it was computed from, and those are
\* cells of the base matrix only.
C2_TotalsAreBaseSums ==
    (AfterSums /\ show_rowcol_sums) =>
        /\ NRows(df_display) = n + 1
        /\ NCols(df_display) = n + 1
        /\ df_display.columns[n + 1] = SigmaRow
        /\ df_display.index[n + 1] = SigmaCol
        /\ \A i \in 1..n :
              /\ df_display.values[i][n + 1] = SigmaProducts(i, n)
              /\ operands[i][n + 1] \subseteq BaseCells
              /\ df_display.values[i][n + 1] = SumCells(operands[i][n + 1])
        /\ \A j \in 1..n :
              /\ df_display.values[n + 1][j] = SigmaProducts(j, n)
              /\ operands[n + 1][j] \subseteq BaseCells
              /\ df_display.values[n + 1][j] = SumCells(operands[n + 1][j])

C2_Witness ==
    /\ pc = "stats"
    /\ show_rowcol_sums
    /\ n = MinN
    /\ df_display.values[2][n + 1] = 30
    /\ df_display.values[n + 1][3] = 45

\* C3: with totals enabled, no cell of the displayed frame, the cell where
\* the totals row meets the totals column included, is computed by summing
\* cells that are themselves totals.
C3_NoSumOfTotals ==
    (AfterSums /\ show_rowcol_sums) =>
        \A i \in 1..NRows(df_display) : \A j \in 1..NCols(df_display) :
            \A q \in operands[i][j] : operands[q[1]][q[2]] = {}

\* C4: with totals enabled and a highlight choice k, the multiples-of-k
\* highlight is applied to no cell of the totals column and to no cell of
\* the totals row.
C4_TotalsNotHighlighted ==
    (AfterStyling /\ show_rowcol_sums /\ highlight_multiples # NoneOption) =>
        \A i \in 1..NRows(df_display) : \A j \in 1..NCols(df_display) :
            (i = n + 1 \/ j = n + 1) => ~styler.highlight[i][j]

\* C5: however a run ends, the table has been displayed and the CSV download
\* step has been reached: a failure of the heatmap or of the styling does
\* not abort the run.
C5_RunReachesTableAndDownload ==
    RunEnded => {"table", "download"} \subseteq shown

\* C6: table generation produces a matrix of exactly n rows and n columns
\* whose cell (i,j) is i*j, labelled 1..n on both axes.
C6_TableIsProducts ==
    /\ AfterData =>
          /\ Len(data) = n
          /\ \A i \in 1..n :
                /\ Len(data[i]) = n
                /\ \A j \in 1..n : data[i][j] = i * j
    /\ pc = "sums" =>
          /\ df.values = data
          /\ NRows(df) = n
          /\ NCols(df) = n
          /\ \A i \in 1..n : Int_(df.index[i]) = i /\ Int_(df.columns[i]) = i

C6_Witness ==
    /\ pc = "sums"
    /\ n = MinN + 1
    /\ Len(data) = 6
    /\ data[2][3] = 6
    /\ df.columns[6] = <<"6">>

\* C7: the generated table is symmetric: cell (i,j) equals cell (j,i) for
\* all 1 <= i,j <= n.
C7_TableSymmetric ==
    AfterData =>
        \A i \in 1..n : \A j \in 1..n :
            /\ data[i][j] = data[j][i]
            /\ df.values[i][j] = df.values[j][i]

C7_Witness ==
    /\ pc = "sums"
    /\ n = MinN
    /\ data[2][5] = 10
    /\ data[5][2] = 10

\* C8: the diagonal of the generated table holds the perfect squares: cell
\* (i,i) equals i*i for all 1 <= i <= n.
C8_DiagonalSquares ==
    AfterData =>
        \A i \in 1..n : data[i][i] = i * i /\ df.values[i][i] = i * i

C8_Witness ==
    /\ pc = "sums"
    /\ n = MinN
    /\ data[5][5] = 25
    /\ df.values[3][3] = 9

\* C9: with totals on or off, the displayed Min is 1, the displayed Max is
\* n*n and the displayed Sum is (n(n+1)/2)^2.
C9_StatsDescribeBaseMatrix ==
    AfterStats =>
        /\ ReadNumber(metrics.Min, 0) = 1
        /\ ReadNumber(metrics.Max, 0) = n * n
        /\ ReadNumber(metrics.Sum, 0) =
              ((n * (n + 1)) \div 2) * ((n * (n + 1)) \div 2)

\* C10: whenever show_heatmap is enabled, with totals on or off, the heatmap
\* data set is built and holds exactly n*n records, one for each pair
\* 1 <= Row, Column <= n, with Value = Row*Column.
C10_HeatmapDataBuilt ==
    (AfterHeatmap /\ show_heatmap) =>
        /\ error = "none"
        /\ Len(df_heat) = n * n
        /\ \A r \in 1..n : \A c \in 1..n :
              \E k \in 1..Len(df_heat) :
                  df_heat[k] = [Row |-> r, Column |-> c, Value |-> r * c]

====
